---- MODULE Spec2Model ----
(***************************************************************************)
(* Model of mpi_vector_add3.c: comm_sz single-threaded MPI processes run   *)
(* the same main(); they meet at MPI_Barrier, four MPI_Gather calls (one   *)
(* per Print_vector) and one MPI_Reduce (inside Parallel_dot_product).     *)
(*                                                                         *)
(* Doubles are held in fixed point, in units of 1/scalar_den (halves), so  *)
(* that scalar = 2.5 is the integer 5.  Every value the program computes   *)
(* (integers below 100, their products and sums, and 2.5 times them) is    *)
(* exactly representable both as a double and in this fixed point.         *)
(*                                                                         *)
(* MPI_Barrier synchronizes.  MPI_Gather and MPI_Reduce need not: a rank   *)
(* other than the root may return as soon as its contribution is handed    *)
(* over, and the root returns once it has every contribution.  Collectives *)
(* on one communicator match in call order, so contributions are kept per  *)
(* collective.  A run that synchronizes more is one of these runs.         *)
(***************************************************************************)
EXTENDS Integers, Sequences, FiniteSets

\* ---------------------------------------------------------------- bounds
\* Vector order: `int n = 20` in main, scaled down.
n == 4
\* Largest process count given to mpiexec -n; comm_sz ranges over 1..MaxW.
\* MaxW <= n throughout, so local_n >= 1 and no malloc(0) is made.
MaxW == 3
\* time(NULL), the wall-clock second of the run: a value in 0..MaxTime.
\* All processes seed within that second; rank r seeds with now + r.
MaxTime == 1

\* ------------------------------------------------------------- constants
\* double scalar = 2.5, as scalar / scalar_den.
scalar == 5
scalar_den == 2
\* rand() % 100
RAND_MOD == 100
\* Content of a malloc'ed cell nobody has written yet.
Uninit == -1
\* What reading an unwritten cell can yield (two distinct doubles: 0.0, 0.5).
Junk == {0, 1}
\* A null pointer / an empty stream.
NULL == <<>>

VARIABLES
    comm_sz,      \* MPI_Comm_size
    now,          \* time(NULL): the second in which the processes seed
    pc,           \* pc[r]: where process r is in main
    pvk,          \* pvk[r]: number of Print_vector calls r has completed
    local_x, local_y, local_z,   \* each process's three blocks
    b,            \* b[r]: Print_vector's receive buffer (NULL when none)
    dot_product,  \* dot_product[r]: main's local variable
    arrived,      \* processes inside MPI_Barrier
    gath,         \* gath[k][r]: r's contribution to the k-th MPI_Gather
    red,          \* red[r]: r's contribution to MPI_Reduce
    racc, rdone,  \* root's running sum and the contributions combined so far
    calls,        \* calls[r]: the collectives r has called, in order
    out,          \* out[r]: what r has written to stdout
    err,          \* ranks that wrote the malloc message to stderr
    aborted       \* the process group was torn down

vars == <<comm_sz, now, pc, pvk, local_x, local_y, local_z, b, dot_product,
          arrived, gath, red, racc, rdone, calls, out, err, aborted>>

Ranks == 0 .. comm_sz - 1
Times == 0 .. MaxTime

\* local_n = n / comm_sz
local_n == n \div comm_sz

\* --------------------------------------------------------------- helpers
FromInt(v) == v * scalar_den
Mult(a, c) == (a * c) \div scalar_den

\* libc's generator: srand(seed) sets the state, each rand() advances it.
RandStep(s) == (s * 37 + 11) % 128
RECURSIVE RandState(_, _)
RandState(seed, k) == IF k = 0 THEN seed % 128
                      ELSE RandStep(RandState(seed, k - 1))
\* the k-th value of (double)(rand() % 100) after srand(seed)
RandVal(seed, k) == FromInt(RandState(seed, k) % RAND_MOD)

\* the generation loop: x[i] and y[i] take alternate draws
GenX(seed) == [i \in 1 .. local_n |-> RandVal(seed, 2 * i - 1)]
GenY(seed) == [i \in 1 .. local_n |-> RandVal(seed, 2 * i)]

\* malloc(cnt * sizeof(double)) that succeeded
Malloc(cnt) == [i \in 1 .. cnt |-> Uninit]

\* for (i = 0; i < local_n; i++) local_dot_product += local_x[i] * local_y[i]
RECURSIVE LocalDot(_, _, _)
LocalDot(x, y, cnt) ==
    IF cnt = 0 THEN 0 ELSE LocalDot(x, y, cnt - 1) + Mult(x[cnt], y[cnt])

\* the loop starting at i = 1: the first element is left alone
ScaledFromOne(v) ==
    [i \in 1 .. Len(v) |-> IF i = 1 THEN v[i] ELSE Mult(v[i], scalar)]

\* for (i = 0; i < local_n; i++) v[i] *= scalar
Scaled(v) == [i \in 1 .. Len(v) |-> Mult(v[i], scalar)]

\* blocks laid out in descending rank order
GatherPlaceReversed(buf, blocks, cnt) ==
    [j \in 1 .. Len(buf) |->
        IF j <= comm_sz * cnt
        THEN blocks[comm_sz - 1 - ((j - 1) \div cnt)].data[((j - 1) % cnt) + 1]
        ELSE buf[j]]

\* the block of the last rank is never stored
GatherPlaceShort(buf, blocks, cnt) ==
    [j \in 1 .. Len(buf) |->
        IF j <= (comm_sz - 1) * cnt
        THEN blocks[(j - 1) \div cnt].data[((j - 1) % cnt) + 1]
        ELSE buf[j]]

\* MPI_Gather at the root: block r of cnt elements lands at offset r * cnt.
GatherPlace(buf, blocks, cnt) ==
    [j \in 1 .. Len(buf) |->
        IF j <= comm_sz * cnt
        THEN blocks[(j - 1) \div cnt].data[((j - 1) % cnt) + 1]
        ELSE buf[j]]

\* exit(-1) in place of MPI_Abort: only the caller stops
ExitOnly(r) == [pc EXCEPT ![r] = "aborted"]

\* MPI_Abort(comm, -1) called by r: every process still running is terminated.
Abort(r) == [q \in Ranks |-> IF pc[q] = "done" THEN "done" ELSE "aborted"]

\* control after the k-th Print_vector call returns
AfterPrint(k) == IF k = 1 \/ k = 3 THEN "Print_vector"
                 ELSE IF k = 2 THEN "dot" ELSE "report"

\* ------------------------------------------------------------------ Init
Init ==
    /\ comm_sz \in 1 .. MaxW
    /\ now \in Times
    /\ pc = [r \in Ranks |-> "alloc"]
    /\ pvk = [r \in Ranks |-> 0]
    /\ local_x = [r \in Ranks |-> NULL]
    /\ local_y = [r \in Ranks |-> NULL]
    /\ local_z = [r \in Ranks |-> NULL]
    /\ b = [r \in Ranks |-> NULL]
    /\ dot_product = [r \in Ranks |-> Uninit]
    /\ arrived = {}
    /\ gath = [k \in 1 .. 4 |-> [r \in Ranks |-> [sent |-> FALSE, data |-> NULL]]]
    /\ red = [r \in Ranks |-> [sent |-> FALSE, val |-> 0]]
    /\ racc = 0
    /\ rdone = {}
    /\ calls = [r \in Ranks |-> <<>>]
    /\ out = [r \in Ranks |-> <<>>]
    /\ err = {}
    /\ aborted = FALSE

\* --------------------------------------------------------------- actions
\* Allocate_vectors, all three malloc calls succeed
AllocOk(r) ==
    /\ pc[r] = "alloc"
    /\ local_x' = [local_x EXCEPT ![r] = Malloc(local_n)]
    /\ local_y' = [local_y EXCEPT ![r] = Malloc(local_n)]
    /\ local_z' = [local_z EXCEPT ![r] = Malloc(local_n)]
    /\ pc' = [pc EXCEPT ![r] = "gen"]
    /\ UNCHANGED <<comm_sz, now, pvk, b, dot_product, arrived, gath, red, racc,
                   rdone, calls, out, err, aborted>>

\* Allocate_vectors, some malloc returns NULL: message, then MPI_Abort
AllocFail(r) ==
    /\ pc[r] = "alloc"
    /\ err' = err \cup {r}
    /\ pc' = Abort(r)
    /\ aborted' = TRUE
    /\ UNCHANGED <<comm_sz, now, pvk, local_x, local_y, local_z, b, dot_product,
                   arrived, gath, red, racc, rdone, calls, out>>

\* srand(time(NULL) + my_rank) and the generation loop
Generate(r) ==
    /\ pc[r] = "gen"
    /\ local_x' = [local_x EXCEPT ![r] = GenX(now + r)]
    /\ local_y' = [local_y EXCEPT ![r] = GenY(now + r)]
    /\ pc' = [pc EXCEPT ![r] = "barrier"]
    /\ UNCHANGED <<comm_sz, now, pvk, local_z, b, dot_product, arrived, gath, red,
                   racc, rdone, calls, out, err, aborted>>

\* MPI_Barrier: the call
BarrierEnter(r) ==
    /\ pc[r] = "barrier"
    /\ arrived' = arrived \cup {r}
    /\ calls' = [calls EXCEPT ![r] = Append(@, "barrier")]
    /\ pc' = [pc EXCEPT ![r] = "in_barrier"]
    /\ UNCHANGED <<comm_sz, now, pvk, local_x, local_y, local_z, b, dot_product,
                   gath, red, racc, rdone, out, err, aborted>>

\* a barrier that lets a process through as soon as anyone has arrived
BarrierOpenEarly == arrived # {}

\* MPI_Barrier returns once every process of the communicator has called it
BarrierOpen == arrived = Ranks

\* MPI_Barrier: the return
BarrierExit(r) ==
    /\ pc[r] = "in_barrier"
    /\ BarrierOpen
    /\ pc' = [pc EXCEPT ![r] = "Print_vector"]
    /\ UNCHANGED <<comm_sz, now, pvk, local_x, local_y, local_z, b, dot_product,
                   arrived, gath, red, racc, rdone, calls, out, err, aborted>>

\* the block handed to the k-th Print_vector call
LocalB(r, k) == IF k = 1 \/ k = 3 THEN local_x[r] ELSE local_y[r]

Title(k) == IF k = 1 THEN "x_before" ELSE IF k = 2 THEN "y_before"
            ELSE IF k = 3 THEN "x_after" ELSE "y_after"

\* Print_vector on a rank other than 0: b stays NULL, MPI_Gather hands the
\* block over and returns.
GatherSend(r) ==
    /\ r # 0
    /\ pc[r] = "Print_vector"
    /\ LET k == pvk[r] + 1 IN
          /\ gath' = [gath EXCEPT ![k][r] = [sent |-> TRUE, data |-> LocalB(r, k)]]
          /\ pvk' = [pvk EXCEPT ![r] = k]
          /\ pc' = [pc EXCEPT ![r] = AfterPrint(k)]
    /\ calls' = [calls EXCEPT ![r] = Append(@, "gather")]
    /\ UNCHANGED <<comm_sz, now, local_x, local_y, local_z, b, dot_product,
                   arrived, red, racc, rdone, out, err, aborted>>

\* Print_vector on rank 0: b = malloc(n * sizeof(double)) succeeds
PrintMalloc ==
    /\ pc[0] = "Print_vector"
    /\ b' = [b EXCEPT ![0] = Malloc(n)]
    /\ pc' = [pc EXCEPT ![0] = "MPI_Gather"]
    /\ UNCHANGED <<comm_sz, now, pvk, local_x, local_y, local_z, dot_product,
                   arrived, gath, red, racc, rdone, calls, out, err, aborted>>

\* Print_vector on rank 0: malloc returns NULL, which is not tested; the
\* gather into a null receive buffer ends the job.
PrintMallocFail ==
    /\ pc[0] = "Print_vector"
    /\ pc' = Abort(0)
    /\ aborted' = TRUE
    /\ UNCHANGED <<comm_sz, now, pvk, local_x, local_y, local_z, b, dot_product,
                   arrived, gath, red, racc, rdone, calls, out, err>>

\* the root waiting for its own block as if it were a message
GatherReadyAll(k) == \A q \in Ranks : gath[k][q].sent

\* every other rank's block of the k-th gather has been handed over
GatherReady(k) == \A q \in Ranks \ {0} : gath[k][q].sent

\* MPI_Gather on rank 0: returns once every block has been received
GatherRoot ==
    /\ pc[0] = "MPI_Gather"
    /\ LET k == pvk[0] + 1
           blocks == [gath[k] EXCEPT ![0] = [sent |-> TRUE, data |-> LocalB(0, k)]]
       IN /\ GatherReady(k)
          /\ gath' = [gath EXCEPT ![k] = blocks]
          /\ b' = [b EXCEPT ![0] = GatherPlace(b[0], blocks, local_n)]
    /\ calls' = [calls EXCEPT ![0] = Append(@, "gather")]
    /\ pc' = [pc EXCEPT ![0] = "printf"]
    /\ UNCHANGED <<comm_sz, now, pvk, local_x, local_y, local_z, dot_product,
                   arrived, red, racc, rdone, out, err, aborted>>

\* the cells of buf that were never written
Unwritten(buf) == {j \in 1 .. Len(buf) : buf[j] = Uninit}

\* Print_vector on rank 0: the title, the n entries of b, free(b)
PrintRoot ==
    /\ pc[0] = "printf"
    /\ LET k == pvk[0] + 1 IN
          /\ \E g \in [Unwritten(b[0]) -> Junk] :
                out' = [out EXCEPT ![0] = Append(@,
                          [title |-> Title(k),
                           vals |-> [j \in 1 .. n |->
                                       IF j \in Unwritten(b[0]) THEN g[j]
                                       ELSE b[0][j]]])]
          /\ pvk' = [pvk EXCEPT ![0] = k]
          /\ pc' = [pc EXCEPT ![0] = AfterPrint(k)]
    /\ b' = [b EXCEPT ![0] = NULL]
    /\ UNCHANGED <<comm_sz, now, local_x, local_y, local_z, dot_product, arrived,
                   gath, red, racc, rdone, calls, err, aborted>>

\* Parallel_dot_product on a rank other than 0: the local sum is handed to
\* MPI_Reduce, and global_dot_product, still 0.0, is returned.
DotSend(r) ==
    /\ r # 0
    /\ pc[r] = "dot"
    /\ red' = [red EXCEPT ![r] =
                 [sent |-> TRUE, val |-> LocalDot(local_x[r], local_y[r], local_n)]]
    /\ dot_product' = [dot_product EXCEPT ![r] = 0]
    /\ calls' = [calls EXCEPT ![r] = Append(@, "reduce")]
    /\ pc' = [pc EXCEPT ![r] = "scale"]
    /\ UNCHANGED <<comm_sz, now, pvk, local_x, local_y, local_z, b, arrived, gath,
                   racc, rdone, out, err, aborted>>

\* Parallel_dot_product on rank 0: the local sum and the call of MPI_Reduce
ReduceCall ==
    /\ pc[0] = "dot"
    /\ red' = [red EXCEPT ![0] =
                 [sent |-> TRUE, val |-> LocalDot(local_x[0], local_y[0], local_n)]]
    /\ racc' = 0
    /\ calls' = [calls EXCEPT ![0] = Append(@, "reduce")]
    /\ pc' = [pc EXCEPT ![0] = "MPI_Reduce"]
    /\ UNCHANGED <<comm_sz, now, pvk, local_x, local_y, local_z, b, dot_product,
                   arrived, gath, rdone, out, err, aborted>>

\* the receive buffer overwritten by each arrival
CombineOverwrite(acc, v) == v

\* MPI_SUM of one more contribution into the running sum
Combine(acc, v) == acc + v

\* MPI_Reduce on rank 0 combines the contributions in the order they arrive
ReduceRecv(q) ==
    /\ pc[0] = "MPI_Reduce"
    /\ red[q].sent
    /\ q \notin rdone
    /\ racc' = Combine(racc, red[q].val)
    /\ rdone' = rdone \cup {q}
    /\ UNCHANGED <<comm_sz, now, pc, pvk, local_x, local_y, local_z, b, dot_product,
                   arrived, gath, red, calls, out, err, aborted>>

\* MPI_Reduce on rank 0 returns; Parallel_dot_product returns the sum
ReduceDone ==
    /\ pc[0] = "MPI_Reduce"
    /\ rdone = Ranks
    /\ dot_product' = [dot_product EXCEPT ![0] = racc]
    /\ pc' = [pc EXCEPT ![0] = "scale"]
    /\ UNCHANGED <<comm_sz, now, pvk, local_x, local_y, local_z, b, arrived, gath,
                   red, racc, rdone, calls, out, err, aborted>>

\* Parallel_scalar_multiplication(local_x, local_y, scalar, local_n)
Scale(r) ==
    /\ pc[r] = "scale"
    /\ local_x' = [local_x EXCEPT ![r] = Scaled(local_x[r])]
    /\ local_y' = [local_y EXCEPT ![r] = Scaled(local_y[r])]
    /\ pc' = [pc EXCEPT ![r] = "Print_vector"]
    /\ UNCHANGED <<comm_sz, now, pvk, local_z, b, dot_product, arrived, gath, red,
                   racc, rdone, calls, out, err, aborted>>

\* the printf calls without their `if (my_rank == 0)`
ReportLinesAnyRank(r) ==
    <<[title |-> "dot", vals |-> <<dot_product[r]>>],
      [title |-> "time", vals |-> <<>>]>>

\* what main prints after the last Print_vector
ReportLines(r) ==
    IF r = 0
    THEN <<[title |-> "dot", vals |-> <<dot_product[r]>>],
           [title |-> "time", vals |-> <<>>]>>
    ELSE <<>>

\* the two `if (my_rank == 0) printf` and the three free calls
Report(r) ==
    /\ pc[r] = "report"
    /\ out' = [out EXCEPT ![r] = @ \o ReportLines(r)]
    /\ local_x' = [local_x EXCEPT ![r] = NULL]
    /\ local_y' = [local_y EXCEPT ![r] = NULL]
    /\ local_z' = [local_z EXCEPT ![r] = NULL]
    /\ pc' = [pc EXCEPT ![r] = "finalize"]
    /\ UNCHANGED <<comm_sz, now, pvk, b, dot_product, arrived, gath, red, racc,
                   rdone, calls, err, aborted>>

\* MPI_Finalize and return 0
Finalize(r) ==
    /\ pc[r] = "finalize"
    /\ pc' = [pc EXCEPT ![r] = "done"]
    /\ UNCHANGED <<comm_sz, now, pvk, local_x, local_y, local_z, b, dot_product,
                   arrived, gath, red, racc, rdone, calls, out, err, aborted>>

\* ------------------------------------------------------- specifications
\* every step process r can take
Proc(r) ==
    /\ r \in Ranks
    /\ \/ AllocOk(r) \/ AllocFail(r) \/ Generate(r)
       \/ BarrierEnter(r) \/ BarrierExit(r)
       \/ GatherSend(r) \/ DotSend(r) \/ Scale(r) \/ Report(r) \/ Finalize(r)
       \/ (r = 0 /\ (PrintMalloc \/ PrintMallocFail \/ GatherRoot \/ PrintRoot
                      \/ ReduceCall \/ ReduceDone
                      \/ \E q \in Ranks : ReduceRecv(q)))

Next ==
    \/ \E r \in Ranks : AllocOk(r)
    \/ \E r \in Ranks : AllocFail(r)
    \/ \E r \in Ranks : Generate(r)
    \/ \E r \in Ranks : BarrierEnter(r)
    \/ \E r \in Ranks : BarrierExit(r)
    \/ \E r \in Ranks : GatherSend(r)
    \/ PrintMalloc
    \/ PrintMallocFail
    \/ GatherRoot
    \/ PrintRoot
    \/ \E r \in Ranks : DotSend(r)
    \/ ReduceCall
    \/ \E q \in Ranks : ReduceRecv(q)
    \/ ReduceDone
    \/ \E r \in Ranks : Scale(r)
    \/ \E r \in Ranks : Report(r)
    \/ \E r \in Ranks : Finalize(r)

Spec == Init /\ [][Next]_vars

\* every MPI process is an operating-system process that keeps running
FairSpec == Spec /\ \A r \in 0 .. MaxW - 1 : WF_vars(Proc(r))

\* ---------------------------------------------------------------- claims
RECURSIVE SumSeq(_)
SumSeq(s) == IF Len(s) = 0 THEN 0 ELSE s[1] + SumSeq(Tail(s))

\* the dot product of two whole vectors, in the fixed point of the model
DotSeq(X, Y) == SumSeq([j \in 1 .. Len(X) |-> (X[j] * Y[j]) \div scalar_den])

\* the blocks handed to the k-th gather by ranks 0..r, one after the other
RECURSIVE Concat(_, _)
Concat(k, r) == IF r < 0 THEN <<>> ELSE Concat(k, r - 1) \o gath[k][r].data

\* the generated blocks of ranks 0..r, one after the other
RECURSIVE GeneratedX(_)
GeneratedX(r) == IF r < 0 THEN <<>> ELSE GeneratedX(r - 1) \o GenX(now + r)
RECURSIVE GeneratedY(_)
GeneratedY(r) == IF r < 0 THEN <<>> ELSE GeneratedY(r - 1) \o GenY(now + r)

IsPrefix(s, t) == Len(s) <= Len(t) /\ \A i \in 1 .. Len(s) : s[i] = t[i]

CollSeq == <<"barrier", "gather", "gather", "reduce", "gather", "gather">>

BeforeBarrierExit == {"alloc", "gen", "barrier", "in_barrier"}
AllDone == \A r \in Ranks : pc[r] = "done"
BadConfig == n <= 0 \/ n % comm_sz # 0

\* C1: when MPI_Gather has returned on rank 0, b[r*local_n + i] is the
\* element i of the block rank r handed to that gather, for every rank r and
\* every i < local_n, in whatever order the ranks reached the gather.
C1_GatherPlacesByRank ==
    pc[0] = "printf" =>
        \A r \in Ranks : \A i \in 0 .. local_n - 1 :
            /\ gath[pvk[0] + 1][r].sent
            /\ b[0][r * local_n + i + 1] = gath[pvk[0] + 1][r].data[i + 1]

\* C1 witness: the third gather has returned on rank 0 of a two-process run
\* whose other rank has already run to its end, with distinct blocks.
C1_Witness ==
    /\ comm_sz = 2 /\ pc[0] = "printf" /\ pvk[0] = 2 /\ pc[1] = "done"
    /\ gath[3][0].data # gath[3][1].data
    /\ b[0] = gath[3][0].data \o gath[3][1].data

\* C2: the value Parallel_dot_product returns at rank 0 is the sum of the
\* ranks' partial dot products, each partial is the dot product of that
\* rank's blocks, and the sum is the dot product of the reassembled vectors,
\* whatever the order in which the partials were combined.
C2_ReduceIsGlobalDot ==
    dot_product[0] # Uninit =>
        /\ dot_product[0] = SumSeq([j \in 1 .. comm_sz |-> red[j - 1].val])
        /\ \A r \in Ranks :
              red[r].val = DotSeq(gath[1][r].data, gath[2][r].data)
        /\ dot_product[0] = DotSeq(Concat(1, comm_sz - 1), Concat(2, comm_sz - 1))

\* C2 witness: rank 0 of a three-process run holds a non-zero dot product to
\* which every rank contributed a non-zero partial.
C2_Witness ==
    /\ comm_sz = 3 /\ pc[0] = "scale" /\ dot_product[0] > 0
    /\ \A r \in Ranks : red[r].val > 0

\* C3: with n not positive or not divisible by comm_sz, no process reaches
\* MPI_Barrier, MPI_Gather or MPI_Reduce: every process is still before its
\* first collective, or terminated by the rejection.
C3_RejectedBeforeCollectives ==
    BadConfig => \A r \in Ranks : calls[r] = <<>>

\* C4: every process calls the collectives in the order barrier, gather,
\* gather, reduce, gather, gather, and, under fair scheduling, a run in
\* which no allocation fails brings every process to its end.
C4_SameOrderAndTermination ==
    /\ [](\A r \in Ranks : IsPrefix(calls[r], CollSeq))
    /\ <>(aborted \/ AllDone)

\* C4 witness: three processes have all terminated normally after calling
\* the six collectives.
C4_Witness ==
    /\ comm_sz = 3 /\ AllDone /\ ~aborted
    /\ \A r \in Ranks : calls[r] = CollSeq

\* C5: once a process has failed to allocate in Allocate_vectors, every
\* process of the group is aborted; none is left in or before a collective.
C5_AllocFailureAbortsAll ==
    err # {} => \A q \in Ranks : pc[q] = "aborted"

\* C5 witness: a process failed to allocate while another one was already
\* waiting inside the barrier.
C5_Witness ==
    \E r \in err : \E q \in Ranks \ {r} : calls[q] = <<"barrier">>

\* C6: the step of Parallel_scalar_multiplication on rank r multiplies every
\* element of r's x and y blocks by 2.5, keeps their lengths, and changes no
\* other vector: not r's local_z, not a receive buffer, not a block of
\* another rank.
C6_ScaleStep(r) ==
    (pc[r] = "scale" /\ pc'[r] = "Print_vector") =>
        /\ Len(local_x'[r]) = Len(local_x[r])
        /\ Len(local_y'[r]) = Len(local_y[r])
        /\ \A i \in 1 .. local_n :
              /\ local_x'[r][i] * scalar_den = scalar * local_x[r][i]
              /\ local_y'[r][i] * scalar_den = scalar * local_y[r][i]
        /\ local_z' = local_z
        /\ b' = b
        /\ \A q \in Ranks \ {r} :
              local_x'[q] = local_x[q] /\ local_y'[q] = local_y[q]

C6_ScalarMultiplyFrame == [][\A r \in Ranks : C6_ScaleStep(r)]_vars

\* C6 witness: rank 1 of a two-process run has just scaled two-element
\* blocks with non-zero entries, while rank 0 still holds unscaled ones.
C6_Witness ==
    /\ comm_sz = 2 /\ pc[1] = "Print_vector" /\ pvk[1] = 2
    /\ local_x[1] = Scaled(GenX(now + 1)) /\ local_x[1][1] > 0
    /\ local_x[1][2] > 0
    /\ pc[0] \in {"Print_vector", "MPI_Gather", "printf", "dot"}
    /\ local_x[0] = GenX(now)

\* C7: only rank 0 holds results: another rank never has a receive buffer,
\* never writes to stdout, and its dot_product is 0.0 once
\* Parallel_dot_product has returned; rank 0 holds the assembled vector of n
\* entries after a gather and the sum of the partials after the reduce.
C7_ResultsOnlyAtCoordinator ==
    /\ \A r \in Ranks \ {0} :
          /\ b[r] = NULL
          /\ out[r] = <<>>
          /\ dot_product[r] \in {Uninit, 0}
          /\ red[r].sent => dot_product[r] = 0
    /\ pc[0] = "printf" => Len(b[0]) = n
    /\ dot_product[0] # Uninit =>
          dot_product[0] = SumSeq([j \in 1 .. comm_sz |-> red[j - 1].val])

\* C7 witness: a three-process run has ended; rank 0 printed six items and
\* holds a non-zero dot product, ranks 1 and 2 returned 0.0 and printed
\* nothing.
C7_Witness ==
    /\ comm_sz = 3 /\ AllDone
    /\ Len(out[0]) = 6 /\ dot_product[0] > 0
    /\ dot_product[1] = 0 /\ dot_product[2] = 0
    /\ out[1] = <<>> /\ out[2] = <<>>

\* C8: when n mod comm_sz = 0, the comm_sz blocks of local_n = n / comm_sz
\* entries cover every global index of [0, n) exactly once, and after a
\* gather no entry of the n-entry buffer rank 0 prints is left unwritten.
C8_PartitionCoversAll ==
    n % comm_sz = 0 =>
        /\ comm_sz * local_n = n
        /\ \A j \in 0 .. n - 1 :
              Cardinality({p \in Ranks \X (0 .. local_n - 1) :
                              p[1] * local_n + p[2] = j}) = 1
        /\ pc[0] = "printf" => Unwritten(b[0]) = {}

\* C8 witness: n divides evenly over two processes and rank 0 is about to
\* print a buffer the gather has filled.
C8_Witness ==
    /\ comm_sz = 2 /\ n % comm_sz = 0 /\ local_n >= 2
    /\ pc[0] = "printf" /\ Unwritten(b[0]) = {}

\* C9: once rank 0 has printed everything, the printed dot product is that
\* of the generated, unscaled vectors, the first printed x and y are those
\* vectors, and for every global index i < n the second printed x[i] (y[i])
\* is 2.5 times the first printed x[i] (y[i]).
C9_PrintedBeforeAndAfter ==
    Len(out[0]) = 6 =>
        /\ out[0][5].vals[1] =
              DotSeq(GeneratedX(comm_sz - 1), GeneratedY(comm_sz - 1))
        /\ \A i \in 1 .. comm_sz * local_n :
              /\ out[0][1].vals[i] = GeneratedX(comm_sz - 1)[i]
              /\ out[0][2].vals[i] = GeneratedY(comm_sz - 1)[i]
        /\ \A i \in 1 .. n :
              /\ out[0][3].vals[i] * scalar_den = scalar * out[0][1].vals[i]
              /\ out[0][4].vals[i] * scalar_den = scalar * out[0][2].vals[i]

\* The statement of C9 on the indices the gather writes, i < comm_sz * local_n.
PrintedBeforeAndAfterOnGathered ==
    Len(out[0]) = 6 =>
        /\ out[0][5].vals[1] =
              DotSeq(GeneratedX(comm_sz - 1), GeneratedY(comm_sz - 1))
        /\ \A i \in 1 .. comm_sz * local_n :
              /\ out[0][1].vals[i] = GeneratedX(comm_sz - 1)[i]
              /\ out[0][2].vals[i] = GeneratedY(comm_sz - 1)[i]
              /\ out[0][3].vals[i] * scalar_den = scalar * out[0][1].vals[i]
              /\ out[0][4].vals[i] * scalar_den = scalar * out[0][2].vals[i]

\* C10: a process that has returned from MPI_Barrier implies that every
\* process has called it, and a process that has called it had generated
\* its x and y blocks.
C10_BarrierSynchronizes ==
    /\ (\E r \in Ranks : pc[r] \notin BeforeBarrierExit \cup {"aborted"})
          => arrived = Ranks
    /\ \A q \in arrived :
          /\ pc[q] \notin {"alloc", "gen", "barrier"}
          /\ pc[q] = "in_barrier" =>
                local_x[q] = GenX(now + q) /\ local_y[q] = GenY(now + q)

\* C10 witness: in a three-process run one process is past the barrier
\* while another is still inside it.
C10_Witness ==
    /\ comm_sz = 3
    /\ \E r \in Ranks : pc[r] = "Print_vector" /\ pvk[r] = 0
    /\ \E q \in Ranks : pc[q] = "in_barrier"

====
